---- MODULE Spec2Model ----
(***************************************************************************)
(* Model of src/server.js: an Express application that keeps one SQLite    *)
(* table, friends, and serves it through six JSON routes.                  *)
(*                                                                         *)
(* The table is the sequence of its rows in rowid order.  sqlite_sequence  *)
(* (the AUTOINCREMENT counter) is part of the state.  The wall clock is    *)
(* not: CURRENT_TIMESTAMP reads whatever second the host's clock shows,    *)
(* and that clock may be set forward or back between two statements.       *)
(*                                                                         *)
(* A route handler runs to the point where it hands its statement to the   *)
(* shared handle (db.all, db.run, stmt.run) and returns to the event loop. *)
(* The statement executes later, as one step of the storage engine, and    *)
(* its callback answers the request: with the result, or with 500 when the *)
(* engine reports an error.  Statements of different requests may execute  *)
(* in any order.  Only the 400 of the create route is answered by the      *)
(* handler itself.                                                         *)
(***************************************************************************)
EXTENDS Integers, Sequences, FiniteSets, Bags, TLC

\* Bounds of the model.
MaxId == 2          \* at most this many successful inserts in one behaviour
MaxClock == 1       \* the wall clock shows the seconds 0..MaxClock
MaxInflight == 2    \* statements queued and not yet executed

(***************************************************************************)
(* JavaScript and SQL values.  A text field of a request body is a string, *)
(* or Undefined when the key is absent; a column holds a string or Null.   *)
(* coords is <<>> when the key is absent and <<lat, lng>> otherwise.       *)
(***************************************************************************)
Undefined == "<undefined>"
Null == "<null>"

Body(n, l, t, c, xy, d) ==
    [name |-> n, location |-> l, notes |-> t, otherCities |-> c,
     coords |-> xy, displayName |-> d]

\* Request bodies that carry every required field.
ValidBodies ==
    {Body("Ana", "Rome", "pizza", "Oslo", <<41, 12>>, "A."),
     Body("Bo", "Oslo", Undefined, Undefined, <<59, 10>>, Undefined),
     Body("Bo", "Oslo", "", "", <<59, 10>>, "")}

\* Request bodies with a required field absent, empty or zero.
InvalidBodies ==
    {Body(Undefined, "Rome", "pizza", "Oslo", <<41, 12>>, "A.")}
      \cup {Body("Ana", Undefined, "pizza", "Oslo", <<41, 12>>, "A.")}
      \cup {Body("Ana", "Rome", "pizza", "Oslo", xy, "A.") :
                xy \in {<<>>, <<0, 12>>, <<41, 0>>}}

CreateBodies == ValidBodies \cup InvalidBodies

\* req.params.id is the text of the path segment: a sequence of characters.
Digits == {"0", "1", "2", "3", "4", "5", "6", "7", "8", "9"}
DigitVal ==
    [c \in Digits |->
        CASE c = "0" -> 0 [] c = "1" -> 1 [] c = "2" -> 2 [] c = "3" -> 3
          [] c = "4" -> 4 [] c = "5" -> 5 [] c = "6" -> 6 [] c = "7" -> 7
          [] c = "8" -> 8 [] c = "9" -> 9]
\* A path may carry any character; Nul stands for the character U+0000.
\* The requests of the model carry a plain number, and a text with white
\* space, a decimal point and a U+0000 after it, which engines read as 2 or
\* as no rowid.
Nul == "<0x00>"
IdParams == {<<"1">>, <<"\t", "2", ".", "0", Nul>>}

\* A queued statement: its kind and what is bound to it.
NoBinding == Body(Undefined, Undefined, Undefined, Undefined, <<>>, Undefined)
Statement(kind, b, chars) == [kind |-> kind, body |-> b, chars |-> chars]

NoReq == [none |-> TRUE]
NoBody == [none |-> TRUE]

VARIABLES
    table,      \* rows of friends, in rowid order
    seq,        \* sqlite_sequence.seq for friends: the largest rowid ever used
    inflight,   \* bag of the statements queued on the shared handle
    last,       \* the request answered last and its response
    prior,      \* the answer just before last, when last is to be read with it
    issued,     \* ids returned by creates, in order
    removed,    \* bag of the ids whose delete-one was answered with success
    cleared,    \* ids removed by delete-all statements
    reported,   \* sum of the counts the delete-all responses reported
    engine      \* the rowid the linked storage engine reads from each id text

vars ==
    <<table, seq, inflight, last, prior, issued, removed, cleared, reported,
      engine>>

\* The answers, and the stored data with the engine that keeps them
answer == <<last, prior>>
store == <<table, seq, issued, removed, cleared, reported, engine>>

----
\* Helpers

RECURSIVE SeqMaxId(_)
SeqMaxId(rows) ==
    IF rows = <<>> THEN 0
    ELSE LET m == SeqMaxId(Tail(rows)) IN
         IF Head(rows).id > m THEN Head(rows).id ELSE m

Ids(rows) == {rows[i].id : i \in 1..Len(rows)}

RECURSIVE Without(_, _)
\* the rows whose id is not n
Without(rows, n) ==
    IF rows = <<>> THEN <<>>
    ELSE IF Head(rows).id = n THEN Without(Tail(rows), n)
         ELSE <<Head(rows)>> \o Without(Tail(rows), n)

\* The queued statements of a kind, and how many there are.
Pending(kind) == {s \in BagToSet(inflight) : s.kind = kind}
PendingCount(kind) == BagCardinality([s \in Pending(kind) |-> inflight[s]])

\* db.run, db.all, stmt.run: the statement joins the queue.
Enqueue(s) ==
    /\ BagCardinality(inflight) < MaxInflight
    /\ inflight' = inflight (+) SetToBag({s})

\* The statement leaves the queue: it executes.
Dequeue(s) == inflight' = inflight (-) SetToBag({s})

\* The response of a callback's err branch.
Failed(op, text) ==
    [op |-> op, req |-> NoReq, status |-> 500, body |-> [error |-> text]]

----
\* POST /api/friends

\* !v for a text value
FalsyText(v) == v \in {Undefined, Null, ""}

\* v || null
OrNull(v) == IF FalsyText(v) THEN Null ELSE v

\* The validation of line 94 with explicit presence checks: a plausible repair
\* that lets the coordinate 0 through.
MissingPresenceOnly(b) ==
    \/ FalsyText(b.name)
    \/ FalsyText(b.location)
    \/ b.coords = <<>>

\* The validation of line 94 without its location test.
MissingNoLocation(b) ==
    \/ FalsyText(b.name)
    \/ b.coords = <<>>
    \/ b.coords[1] = 0
    \/ b.coords[2] = 0

\* !name || !location || !coords || !coords.lat || !coords.lng
Missing(b) ==
    \/ FalsyText(b.name)
    \/ FalsyText(b.location)
    \/ b.coords = <<>>
    \/ b.coords[1] = 0
    \/ b.coords[2] = 0

\* A rowid chosen as for a plain INTEGER PRIMARY KEY: one more than the
\* largest rowid now in the table.
NextRowidNoAuto(rows, sq) == SeqMaxId(rows) + 1

\* The rowid of an insert into an AUTOINCREMENT table: one more than the
\* largest rowid the table ever held.
NextRowid(rows, sq) ==
    (IF SeqMaxId(rows) > sq THEN SeqMaxId(rows) ELSE sq) + 1

\* The inserted row keeps the optional texts as supplied.
NewRowRaw(b, id, now) ==
    [id |-> id, name |-> b.name, location |-> b.location,
     notes |-> b.notes, otherCities |-> b.otherCities,
     latitude |-> b.coords[1], longitude |-> b.coords[2],
     displayName |-> b.displayName, timestamp |-> now]

\* The row the INSERT of lines 100-114 stores.
NewRow(b, id, now) ==
    [id |-> id, name |-> b.name, location |-> b.location,
     notes |-> OrNull(b.notes), otherCities |-> OrNull(b.otherCities),
     latitude |-> b.coords[1], longitude |-> b.coords[2],
     displayName |-> OrNull(b.displayName), timestamp |-> now]

\* The body of the success response, lines 120-129.
CreatedBody(b, id) ==
    [id |-> id, name |-> b.name, location |-> b.location, notes |-> b.notes,
     otherCities |-> b.otherCities, coords |-> b.coords,
     displayName |-> b.displayName, message |-> "Friend added successfully"]

BadRequest(b) ==
    [op |-> "create", req |-> b, status |-> 400,
     body |-> [error |-> "Name, location, and coordinates are required"]]

\* The handler: validation, then db.prepare and stmt.run.
PostFriend ==
    \E b \in CreateBodies :
        IF Missing(b)
        THEN /\ last' = BadRequest(b)
             /\ prior' = [op |-> "none"]
             /\ UNCHANGED <<store, inflight>>
        ELSE /\ seq + PendingCount("insert") < MaxId
             /\ Enqueue(Statement("insert", b, <<>>))
             /\ UNCHANGED <<store, answer>>

\* What CURRENT_TIMESTAMP may read at an INSERT: any second of the wall
\* clock, an earlier one than the INSERT before read included.
Readings == 0..MaxClock

\* The INSERT statement and its callback.
RunInsert(b, now, err) ==
    LET id == NextRowid(table, seq) IN
    IF err
    THEN /\ last' = Failed("create", "Failed to add friend")
         /\ prior' = [op |-> "none"]
         /\ UNCHANGED store
    ELSE /\ table' = Append(table, NewRow(b, id, now))
         /\ seq' = id
         /\ last' = [op |-> "create", req |-> b, status |-> 200,
                     body |-> CreatedBody(b, id)]
         /\ prior' = last'
         /\ issued' = Append(issued, id)
         /\ UNCHANGED <<removed, cleared, reported, engine>>

InsertCallback ==
    \E s \in Pending("insert"), now \in Readings, err \in BOOLEAN :
        /\ Dequeue(s)
        /\ RunInsert(s.body, now, err)

----
\* GET /api/friends and GET /api/friends/public

\* The arrangements of n rows, for every n the table can hold.
Perms ==
    [n \in 0..MaxId |->
        {p \in [1..n -> 1..n] : \A i, j \in 1..n : i # j => p[i] # p[j]}]

Reorder(rows, p) == [i \in 1..Len(rows) |-> rows[p[i]]]

\* A SELECT without ORDER BY: the rows in rowid order.
RowidOrder(rows) == {rows}

\* ORDER BY timestamp DESC: every arrangement of the rows in which no row
\* comes before one with a larger timestamp.  SQL leaves the order of rows
\* with equal timestamps open.
OrderByTimestampDesc(rows) ==
    {Reorder(rows, p) : p \in
        {q \in Perms[Len(rows)] :
            \A i, j \in 1..Len(rows) :
                i < j => rows[q[i]].timestamp >= rows[q[j]].timestamp}}

\* rows.map of lines 45-57
FullEntry(r) ==
    [id |-> r.id, name |-> r.name, location |-> r.location, notes |-> r.notes,
     otherCities |-> r.otherCities,
     coords |-> [lat |-> r.latitude, lng |-> r.longitude],
     displayName |-> r.displayName, timestamp |-> r.timestamp]

\* The public projection made with the privileged one's shape.
PublicEntryLeaky(r) == FullEntry(r)

\* The column list of line 66 and rows.map of lines 72-82
PublicEntry(r) ==
    [id |-> r.id, name |-> r.name, location |-> r.location,
     coords |-> [lat |-> r.latitude, lng |-> r.longitude],
     displayName |-> r.displayName, timestamp |-> r.timestamp]

\* Every response body GET /api/friends can give for the rows.
FriendsBodies(rows) ==
    {[i \in 1..Len(rows) |-> FullEntry(s[i])] : s \in OrderByTimestampDesc(rows)}

\* Every response body GET /api/friends/public can give for the rows.
PublicBodies(rows) ==
    {[i \in 1..Len(rows) |-> PublicEntry(s[i])] : s \in OrderByTimestampDesc(rows)}

\* A list is read with the successful create answered just before it.
PriorOf(l) == IF l.op = "create" /\ l.status = 200 THEN l ELSE [op |-> "none"]

\* The handlers: db.all
GetFriends ==
    /\ Enqueue(Statement("list", NoBinding, <<>>))
    /\ UNCHANGED <<store, answer>>

GetPublicFriends ==
    /\ Enqueue(Statement("public", NoBinding, <<>>))
    /\ UNCHANGED <<store, answer>>

\* The SELECT statements and their callbacks.
FriendsCallback ==
    \E s \in Pending("list"), err \in BOOLEAN :
        /\ Dequeue(s)
        /\ IF err
           THEN last' = Failed("list", "Failed to fetch friends")
           ELSE \E b \in FriendsBodies(table) :
                    last' = [op |-> "list", req |-> NoReq, status |-> 200,
                             body |-> b]
        /\ prior' = PriorOf(last)
        /\ UNCHANGED store

PublicCallback ==
    \E s \in Pending("public"), err \in BOOLEAN :
        /\ Dequeue(s)
        /\ IF err
           THEN last' = Failed("public", "Failed to fetch friends")
           ELSE \E b \in PublicBodies(table) :
                    last' = [op |-> "public", req |-> NoReq, status |-> 200,
                             body |-> b]
        /\ prior' = PriorOf(last)
        /\ UNCHANGED store

----
\* DELETE /api/friends/:id

(***************************************************************************)
(* friendId is bound as text.  The id column has INTEGER affinity, so the  *)
(* engine converts a text that is a well-formed number before comparing:   *)
(* optional white space, an optional sign, digits with an optional decimal *)
(* point, an optional exponent, optional white space.  Any other text is   *)
(* compared as text and equals no rowid.                                   *)
(*                                                                         *)
(* The program names no version of the engine, and engines differ in three *)
(* places.  Where the text ends: at its length, or at its first U+0000.    *)
(* How a real is rounded: an engine gathers only so many digits of the     *)
(* mantissa and rounds to a double as exactly as its arithmetic allows, so *)
(* a number within a few units in the last place of an integer, and not    *)
(* that integer, is read as the integer by one engine and not by another.  *)
(* How far an exponent is counted: an engine may stop at 10000.            *)
(* Readable(chars) is the set of rowids engines read from a text, 0 for    *)
(* none; it has one element wherever engines agree.  One build links one   *)
(* engine, which reads a text the same way every time: the variable engine *)
(* holds its reading of each text.                                         *)
(*                                                                         *)
(* Digits are kept as sequences, so the length of the text does not        *)
(* matter; an integer the model cannot hold (above 2^31 - 1) equals none   *)
(* of its rowids.                                                          *)
(***************************************************************************)
VerticalTab == "<0x0B>"
Spaces == {" ", "\t", "\n", "\r", "\f", VerticalTab}
Signs == {"+", "-"}

AllDigits(chars) == \A i \in 1..Len(chars) : chars[i] \in Digits

\* The digits of a digit text as numbers.
DigitsOf(chars) == [i \in 1..Len(chars) |-> DigitVal[chars[i]]]

RECURSIVE NumVal(_)
\* The number a sequence of digits writes.
NumVal(ds) ==
    IF ds = <<>> THEN 0
    ELSE NumVal(SubSeq(ds, 1, Len(ds) - 1)) * 10 + ds[Len(ds)]

RECURSIVE ExpVal(_, _)
\* The exponent a sequence of digits writes, counted as far as stop and
\* left there once it has passed it.
ExpVal(ds, stop) ==
    IF ds = <<>> THEN 0
    ELSE LET e == ExpVal(SubSeq(ds, 1, Len(ds) - 1), stop) IN
         IF e < stop THEN e * 10 + ds[Len(ds)] ELSE stop

\* Where engines stop counting an exponent: at 10000, or not before the
\* number has left every range (the model counts to 10^8).
ExpStops == {10000, 100000000}

RECURSIVE Trim(_)
Trim(chars) ==
    IF chars = <<>> THEN chars
    ELSE IF Head(chars) \in Spaces THEN Trim(Tail(chars))
    ELSE IF chars[Len(chars)] \in Spaces
         THEN Trim(SubSeq(chars, 1, Len(chars) - 1))
    ELSE chars

\* The first place of chars that holds a character of set; 0 when none does.
IndexOf(chars, set) ==
    IF \E i \in 1..Len(chars) : chars[i] \in set
    THEN CHOOSE i \in 1..Len(chars) :
            chars[i] \in set /\ \A j \in 1..(i - 1) : chars[j] \notin set
    ELSE 0

Unsigned(chars) ==
    IF chars # <<>> /\ Head(chars) \in Signs THEN Tail(chars) ELSE chars

\* The text read as a number: whether it is one, its sign, the digits of its
\* mantissa (integer part, then fraction), how many of them follow the
\* point, and the exponent as engines count it.
NumericText(chars) ==
    LET t == Trim(chars)
        u == Unsigned(t)
        e == IndexOf(u, {"e", "E"})
        m == IF e = 0 THEN u ELSE SubSeq(u, 1, e - 1)
        x == IF e = 0 THEN <<>> ELSE SubSeq(u, e + 1, Len(u))
        xd == Unsigned(x)
        p == IndexOf(m, {"."})
        ip == IF p = 0 THEN m ELSE SubSeq(m, 1, p - 1)
        fp == IF p = 0 THEN <<>> ELSE SubSeq(m, p + 1, Len(m))
        ok == /\ AllDigits(ip) /\ AllDigits(fp)
              /\ Len(ip) + Len(fp) >= 1
              /\ e # 0 => (xd # <<>> /\ AllDigits(xd))
    IN  IF ~ok
        THEN [ok |-> FALSE, neg |-> FALSE, digits |-> <<>>, places |-> 0,
              exps |-> {0}]
        ELSE [ok |-> TRUE,
              neg |-> t[1] = "-",
              digits |-> DigitsOf(ip \o fp),
              places |-> Len(fp),
              exps |-> {IF x # <<>> /\ Head(x) = "-"
                        THEN -ExpVal(DigitsOf(xd), stop)
                        ELSE ExpVal(DigitsOf(xd), stop) : stop \in ExpStops}]

RECURSIVE StripLeft(_)
\* ds without its leading zeros
StripLeft(ds) ==
    IF ds # <<>> /\ Head(ds) = 0 THEN StripLeft(Tail(ds)) ELSE ds

RECURSIVE StripRight(_)
\* ds without its trailing zeros
StripRight(ds) ==
    IF ds # <<>> /\ ds[Len(ds)] = 0
    THEN StripRight(SubSeq(ds, 1, Len(ds) - 1))
    ELSE ds

Zeros(n) == [i \in 1..n |-> 0]

\* a writes a smaller number than b, both of one length
Less(a, b) ==
    \E i \in 1..Len(a) : a[i] < b[i] /\ \A j \in 1..(i - 1) : a[j] = b[j]

\* The fraction 0.a is at most the fraction 0.b
FracLeq(a, b) ==
    LET n == IF Len(a) > Len(b) THEN Len(a) ELSE Len(b)
        pa == a \o Zeros(n - Len(a))
        pb == b \o Zeros(n - Len(b))
    IN  pa = pb \/ Less(pa, pb)

\* The largest integer of the model, 2^31 - 1.
MaxInt == <<2, 1, 4, 7, 4, 8, 3, 6, 4, 7>>

\* ds, without leading zeros, writes an integer the model can hold.
Holds(ds) ==
    Len(ds) < Len(MaxInt) \/ (Len(ds) = Len(MaxInt) /\ ~Less(MaxInt, ds))

RECURSIVE Width(_)
\* The number of digits that write the integer r, r >= 1
Width(r) == IF r < 10 THEN 1 ELSE 1 + Width(r \div 10)

\* A number this close to the integer r, or closer, is read as r by every
\* engine: 10^-17 of r at most, which the 18 digits the shortest mantissa
\* gathers and a rounding to the 53 bits of a double cannot tell from r.
Inner(r) == Zeros(17 - Width(r)) \o <<1>>

\* A number farther than this from the integer r is read as r by no engine:
\* 10^-15 of r at least, which is more than 4 units in the last place of a
\* double.
Outer(r) == Zeros(14 - Width(r)) \o <<1>>

\* The digits of 1 - 0.ds, ds ending in a digit that is not 0
Complement(ds) ==
    [i \in 1..Len(ds) |-> IF i < Len(ds) THEN 9 - ds[i] ELSE 10 - ds[i]]

\* The integers engines read from i + 0.frac, 0 for none; frac ends in a
\* digit that is not 0.
NearInts(i, frac) ==
    IF i >= 1 /\ FracLeq(frac, Inner(i)) THEN {i}
    ELSE IF i >= 1 /\ FracLeq(frac, Outer(i)) THEN {0, i}
    ELSE IF i < NumVal(MaxInt) /\ FracLeq(Complement(Inner(i + 1)), frac)
         THEN {i + 1}
    ELSE IF i < NumVal(MaxInt) /\ FracLeq(Complement(Outer(i + 1)), frac)
         THEN {0, i + 1}
    ELSE {0}

\* The rowids engines read from the number with the significant digits s, w
\* of them before the decimal point; s neither begins nor ends with 0.
DigitsRowids(s, w) ==
    IF s = <<>> THEN {0}
    ELSE IF w >= Len(s)
         THEN IF w <= Len(MaxInt) /\ Holds(s \o Zeros(w - Len(s)))
              THEN {NumVal(s \o Zeros(w - Len(s)))} ELSE {0}
    ELSE IF w < 0 \/ ~Holds(SubSeq(s, 1, w)) THEN {0}
    ELSE NearInts(NumVal(SubSeq(s, 1, w)), SubSeq(s, w + 1, Len(s)))

\* The rowids engines read from the mantissa digits d, without leading
\* zeros, scaled by the power of ten scale.
MantissaRowids(d, scale) == DigitsRowids(StripRight(d), Len(d) + scale)

\* The rowids engines read from the number n: none when n is no number or
\* is negative; one reading for each way of counting the exponent.
NumberRowids(n) ==
    IF ~n.ok \/ n.neg THEN {0}
    ELSE UNION {MantissaRowids(StripLeft(n.digits), x - n.places) :
                    x \in n.exps}

\* The text up to its first U+0000.
UpToNul(chars) ==
    IF IndexOf(chars, {Nul}) = 0 THEN chars
    ELSE SubSeq(chars, 1, IndexOf(chars, {Nul}) - 1)

\* The rowids engines read from a text under the INTEGER affinity of the id
\* column; 0 stands for none (rowids start at 1).
Readable(chars) ==
    NumberRowids(NumericText(chars)) \cup NumberRowids(NumericText(UpToNul(chars)))

\* The readings of the parameter texts the requests of the model carry,
\* worked out once.
Converted == [chars \in IdParams |-> Readable(chars)]

\* The engines a build may link, each with its reading of every text.
Engines ==
    {e \in [IdParams -> UNION {Converted[chars] : chars \in IdParams}] :
        \A chars \in IdParams : e[chars] \in Converted[chars]}

\* The rowid the parameter friendId equals in id = ?
ParamId(chars) == engine[chars]

\* The callback of lines 141-150 without its this.changes === 0 branch.
DeleteOneStatusAlways(changes) == 200

\* this.changes === 0 ? 404 : 200
DeleteOneStatus(changes) == IF changes = 0 THEN 404 ELSE 200

\* DELETE FROM friends WHERE id <= ?
AfterDeleteUpTo(rows, chars) ==
    SelectSeq(rows, LAMBDA r : r.id > ParamId(chars))

\* DELETE FROM friends WHERE id = ?
AfterDeleteOne(rows, chars) == Without(rows, ParamId(chars))

\* The handler: db.run
DeleteFriend ==
    \E chars \in IdParams :
        /\ Enqueue(Statement("deleteOne", NoBinding, chars))
        /\ UNCHANGED <<store, answer>>

\* The DELETE statement and its callback.
RunDeleteOne(chars, twin, err) ==
    LET rest == AfterDeleteOne(table, chars)
        changes == Len(table) - Len(rest)
        status == DeleteOneStatus(changes)
    IN  IF err
        THEN /\ last' = Failed("deleteOne", "Failed to delete friend")
             /\ UNCHANGED store
        ELSE /\ table' = rest
             /\ last' = [op |-> "deleteOne", req |-> chars, status |-> status,
                         twin |-> twin,
                         body |-> IF status = 404
                                  THEN [error |-> "Friend not found"]
                                  ELSE [message |-> "Friend deleted successfully"]]
             /\ removed' = IF status = 200
                           THEN removed (+) SetToBag({ParamId(chars)})
                           ELSE removed
             /\ UNCHANGED <<seq, issued, cleared, reported, engine>>

\* The delete-one statements of the bag that denote the id.
DeletesOf(bag, id) ==
    {s \in BagToSet(bag) : s.kind = "deleteOne" /\ ParamId(s.chars) = id}

\* A delete-one is read with the delete-one of the same id answered with
\* success just before it, when the two were queued together.
RivalOf(l, chars) ==
    IF /\ l.op = "deleteOne"
       /\ l.status = 200
       /\ l.twin
       /\ ParamId(l.req) = ParamId(chars)
    THEN l ELSE [op |-> "none"]

\* twin records whether another delete-one of the same id is still queued
\* when this one executes.
DeleteCallback ==
    \E s \in Pending("deleteOne"), err \in BOOLEAN :
        /\ Dequeue(s)
        /\ RunDeleteOne(s.chars,
                        DeletesOf(inflight (-) SetToBag({s}),
                                  ParamId(s.chars)) # {},
                        err)
        /\ prior' = RivalOf(last, s.chars)

----
\* DELETE /api/friends

\* The count of a statement that reports the rows left, not the rows removed.
ClearChangesAfter(before, after) == Len(after)

\* this.changes of DELETE FROM friends
ClearChanges(before, after) == Len(before) - Len(after)

\* The handler: db.run
ClearFriends ==
    /\ Enqueue(Statement("deleteAll", NoBinding, <<>>))
    /\ UNCHANGED <<store, answer>>

\* The DELETE statement and its callback.
RunDeleteAll(err) ==
    LET changes == ClearChanges(table, <<>>) IN
    IF err
    THEN /\ last' = Failed("deleteAll", "Failed to clear friends")
         /\ UNCHANGED store
    ELSE /\ table' = <<>>
         /\ last' = [op |-> "deleteAll", req |-> NoReq, status |-> 200,
                     body |-> [message |-> "Deleted N friends", N |-> changes]]
         /\ cleared' = cleared \cup Ids(table)
         /\ reported' = reported + changes
         /\ UNCHANGED <<seq, issued, removed, engine>>

ClearCallback ==
    \E s \in Pending("deleteAll"), err \in BOOLEAN :
        /\ Dequeue(s)
        /\ RunDeleteAll(err)
        /\ prior' = [op |-> "none"]

----
\* GET /api/stats

\* COUNT(*) with the CASE of line 171 dropped
CountAll(col) == Len(col)

RECURSIVE CountNonEmpty(_)
\* COUNT(CASE WHEN x IS NOT NULL AND x != '' THEN 1 END) over a column
CountNonEmpty(col) ==
    IF col = <<>> THEN 0
    ELSE (IF Head(col) # Null /\ Head(col) # "" THEN 1 ELSE 0)
            + CountNonEmpty(Tail(col))

StatsBody(rows) ==
    [totalFriends |-> Len(rows),
     friendsWithNotes |-> CountNonEmpty([i \in 1..Len(rows) |-> rows[i].notes]),
     friendsWithRecommendations |->
        CountNonEmpty([i \in 1..Len(rows) |-> rows[i].otherCities])]

\* The handler: db.all
GetStats ==
    /\ Enqueue(Statement("stats", NoBinding, <<>>))
    /\ UNCHANGED <<store, answer>>

\* The aggregate SELECT and its callback.
StatsCallback ==
    \E s \in Pending("stats"), err \in BOOLEAN :
        /\ Dequeue(s)
        /\ last' = IF err
                   THEN Failed("stats", "Failed to get stats")
                   ELSE [op |-> "stats", req |-> NoReq, status |-> 200,
                         body |-> StatsBody(table)]
        /\ prior' = [op |-> "none"]
        /\ UNCHANGED store

----
(***************************************************************************)
(* The state once the database is open and CREATE TABLE IF NOT EXISTS has  *)
(* run.  friends.db is a fresh file, or the file an earlier run of the     *)
(* program left: here with one row stored, or with its one row deleted     *)
(* again (sqlite_sequence keeps the rowid).  issued and removed tell the   *)
(* history of the file, the earlier run included.                          *)
(***************************************************************************)
StartFiles ==
    {[table |-> <<>>, seq |-> 0, issued |-> <<>>, removed |-> EmptyBag]}
      \cup {[table |-> <<NewRow(b, 1, t)>>, seq |-> 1, issued |-> <<1>>,
             removed |-> EmptyBag] : b \in ValidBodies, t \in Readings}
      \cup {[table |-> <<>>, seq |-> 1, issued |-> <<1>>,
             removed |-> SetToBag({1})]}

Init ==
    /\ \E f \in StartFiles :
          /\ table = f.table
          /\ seq = f.seq
          /\ issued = f.issued
          /\ removed = f.removed
    /\ engine \in Engines
    /\ inflight = EmptyBag
    /\ last = [op |-> "none", req |-> NoReq, status |-> 0, body |-> NoBody]
    /\ prior = [op |-> "none"]
    /\ cleared = {}
    /\ reported = 0

Next ==
    \/ PostFriend
    \/ InsertCallback
    \/ GetFriends
    \/ FriendsCallback
    \/ GetPublicFriends
    \/ PublicCallback
    \/ DeleteFriend
    \/ DeleteCallback
    \/ ClearFriends
    \/ ClearCallback
    \/ GetStats
    \/ StatsCallback

Spec == Init /\ [][Next]_vars

----
\* Properties

Range(f) == {f[i] : i \in 1..Len(f)}

NoRepeats(f) == \A i, j \in 1..Len(f) : i # j => f[i] # f[j]

\* The last answer is a list the SELECT produced.
IsList == last.op = "list" /\ last.status = 200
IsPublic == last.op = "public" /\ last.status = 200
IsAnyList == IsList \/ IsPublic

\* The step is the callback of a statement of route op: the statement leaves
\* the queue and the request is answered.
Answered(op) ==
    /\ BagCardinality(inflight') < BagCardinality(inflight)
    /\ last'.op = op

\* id a was returned by a create answered after the create that returned id b
CreatedAfter(a, b) ==
    \E i, j \in 1..Len(issued) : issued[i] = a /\ issued[j] = b /\ i > j

\* The id the create recorded in prior returned was returned by no earlier
\* create.
PriorIdIsNew ==
    /\ issued # <<>>
    /\ issued[Len(issued)] = prior.body.id
    /\ \A k \in 1..(Len(issued) - 1) : issued[k] # prior.body.id

\* The listed entry e carries the fields of the create request b, an optional
\* field held to be equal to what was supplied (null when it was absent).
EntryAsSupplied(e, b) ==
    /\ e.name = b.name
    /\ e.location = b.location
    /\ e.notes = (IF b.notes = Undefined THEN Null ELSE b.notes)
    /\ e.otherCities = (IF b.otherCities = Undefined THEN Null ELSE b.otherCities)
    /\ e.coords = [lat |-> b.coords[1], lng |-> b.coords[2]]
    /\ e.displayName = (IF b.displayName = Undefined THEN Null ELSE b.displayName)

\* As EntryAsSupplied, but an optional field supplied as the empty string is
\* listed as null.
EntryAsStored(e, b) ==
    /\ e.name = b.name
    /\ e.location = b.location
    /\ e.notes = (IF b.notes \in {Undefined, ""} THEN Null ELSE b.notes)
    /\ e.otherCities =
          (IF b.otherCities \in {Undefined, ""} THEN Null ELSE b.otherCities)
    /\ e.coords = [lat |-> b.coords[1], lng |-> b.coords[2]]
    /\ e.displayName =
          (IF b.displayName \in {Undefined, ""} THEN Null ELSE b.displayName)

\* C1 as claimed: a privileged list answered right after a successful create
\* holds an entry with the new id whose name, location, notes, otherCities,
\* coords and displayName are the values the create request supplied.
C1_ListShowsSuppliedValues ==
    (IsList /\ prior.op = "create") =>
        /\ PriorIdIsNew
        /\ \E i \in 1..Len(last.body) :
              /\ last.body[i].id = prior.body.id
              /\ EntryAsSupplied(last.body[i], prior.req)

\* C1 amended: a privileged list answered right after a successful create
\* holds an entry with the new id whose name, location and coords are the
\* values supplied and whose notes, otherCities and displayName are the values
\* supplied when those are non-empty strings, and null when the field was
\* absent or the empty string.
C1_ListShowsStoredValues ==
    (IsList /\ prior.op = "create") =>
        /\ PriorIdIsNew
        /\ \E i \in 1..Len(last.body) :
              /\ last.body[i].id = prior.body.id
              /\ EntryAsStored(last.body[i], prior.req)

\* A list right after a create that supplied empty optional fields, on a
\* table that already held a record.
C1_Witness ==
    /\ IsList
    /\ prior.op = "create"
    /\ prior.req.notes = ""
    /\ Len(last.body) >= 2
    /\ \E i \in 1..Len(last.body) :
          last.body[i].id = prior.body.id /\ last.body[i].notes = Null

\* The values the notes and otherCities columns of a row may hold in place of
\* the stored ones.
HiddenVals == {<<Null, Null>>, <<"secret", "secret">>}

\* The rows with their notes and otherCities replaced as f says.
WithHidden(rows, f) ==
    [i \in 1..Len(rows) |->
        [rows[i] EXCEPT !.notes = f[i][1], !.otherCities = f[i][2]]]

\* C2: the public list's response does not depend on the notes and
\* otherCities of the stored records (every table that differs from the
\* stored one only in those columns yields the same responses), and no entry
\* of the response has a notes or an otherCities field.
C2_PublicHidesNotes ==
    IsPublic =>
        LET bodies == PublicBodies(table) IN
        /\ last.body \in bodies
        /\ \A f \in [1..Len(table) -> HiddenVals] :
              PublicBodies(WithHidden(table, f)) = bodies
        /\ \A i \in 1..Len(last.body) :
              {"notes", "otherCities"} \cap DOMAIN last.body[i] = {}

\* A public list of a table holding a record with notes and otherCities and
\* a record without.
C2_Witness ==
    /\ IsPublic
    /\ Len(last.body) >= 2
    /\ \E i, j \in 1..Len(table) :
          /\ table[i].notes # Null /\ table[i].otherCities # Null
          /\ table[j].notes = Null /\ table[j].otherCities = Null

\* The create request b has no name, no location or no coords.
Omits(b) == b.name = Undefined \/ b.location = Undefined \/ b.coords = <<>>

\* The last answer is the create route's own: 400 or success, with the
\* request it answers.
IsCreateAnswer(l) == l.op = "create" /\ l.status # 500

\* C3: a create request that omits name, location or coords is answered 400,
\* the table after it is the table before it, and no INSERT is ever queued
\* for it.
C3_OmittedFieldRejected ==
    /\ [](\A s \in Pending("insert") : ~Omits(s.body))
    /\ [][(IsCreateAnswer(last') /\ Omits(last'.req)) =>
            (last'.status = 400 /\ table' = table /\ seq' = seq)]_vars

\* A create without a location was answered while the table held records.
C3_Witness ==
    /\ last.op = "create"
    /\ last.status = 400
    /\ last.req.location = Undefined
    /\ last.req.name # Undefined
    /\ Len(table) >= 1

\* C4: delete-one of an id the table holds is answered with success and
\* removes that record and no other; delete-one of an id the table does not
\* hold is answered 404 and leaves the table as it was.  The id is the rowid
\* the engine of the build reads from the path text, one of the rowids
\* engines read from it.  A statement the engine fails is answered 500 and
\* leaves the table as it was.
C4_DeleteOneFrame ==
    [][Answered("deleteOne") =>
          IF last'.status = 500 THEN table' = table
          ELSE LET id == ParamId(last'.req) IN
               /\ id \in Readable(last'.req)
               /\ IF id \in Ids(table)
                  THEN /\ last'.status = 200
                       /\ id \notin Ids(table')
                       /\ Len(table') = Len(table) - 1
                       /\ \A i \in 1..Len(table) :
                             table[i].id # id => table[i] \in Range(table')
                  ELSE /\ last'.status = 404
                       /\ table' = table]_vars

\* A delete-one whose path text engines read in two ways was answered with
\* success and other records remain.
C4_Witness ==
    /\ last.op = "deleteOne"
    /\ last.status = 200
    /\ Cardinality(Readable(last.req)) = 2
    /\ Len(table) >= 1
    /\ ParamId(last.req) \notin Ids(table)

\* C5: delete-all leaves the table empty and its message reports the number
\* of rows the table held just before the statement executed.  A statement
\* the engine fails is answered 500 and leaves the table as it was.
C5_DeleteAllCount ==
    [][Answered("deleteAll") =>
          IF last'.status = 500 THEN table' = table
          ELSE table' = <<>> /\ last'.body.N = Len(table)]_vars

\* A delete-all reported two rows removed.
C5_Witness ==
    /\ last.op = "deleteAll"
    /\ last.status = 200
    /\ last.body.N = 2
    /\ table = <<>>

\* Every record of the table after a step that was in the table before it is
\* unchanged, and a record that is new carries the id the create just
\* answered returned.
RowsKeepIds ==
    \A i \in 1..Len(table') :
        IF table'[i].id \in Ids(table)
        THEN table'[i] \in Range(table)
        ELSE /\ last'.op = "create"
             /\ last'.status = 200
             /\ last'.body.id = table'[i].id
             /\ Len(table') = Len(table) + 1

\* C6: no two stored records share an id, no create returns an id an
\* earlier create returned (also when that record has since been deleted),
\* and a stored record keeps its id for as long as it is stored.
C6_IdsUniqueAndStable ==
    /\ [](NoRepeats([i \in 1..Len(table) |-> table[i].id])
            /\ NoRepeats(issued)
            /\ Ids(table) \subseteq Range(issued))
    /\ [][RowsKeepIds]_vars

\* A create was answered after every earlier record had been deleted.
C6_Witness ==
    /\ last.op = "create"
    /\ last.status = 200
    /\ Len(issued) >= 2
    /\ Len(table) = 1

\* C7 as claimed: in a list response the record created later comes first,
\* whatever the timestamps.
C7_LaterCreatedFirst ==
    IsAnyList =>
        \A i, j \in 1..Len(last.body) :
            i < j => CreatedAfter(last.body[i].id, last.body[j].id)

\* C7 amended: both lists return every stored record, no entry before one
\* with a larger stored timestamp; so a record created after another and
\* stamped with a later second comes first.  The order of records stamped
\* with the same second is not determined, and a record created later but
\* stamped with an earlier second (the wall clock was set back) comes after.
C7_OrderedByTimestamp ==
    IsAnyList =>
        /\ {last.body[i].id : i \in 1..Len(last.body)} = Ids(table)
        /\ Len(last.body) = Len(table)
        /\ \A i, j \in 1..Len(last.body) :
              /\ i < j => last.body[i].timestamp >= last.body[j].timestamp
              /\ (/\ CreatedAfter(last.body[i].id, last.body[j].id)
                  /\ last.body[i].timestamp > last.body[j].timestamp) => i < j

\* A list of two records stamped with different seconds, the one created
\* later with the later second.
C7_Witness ==
    /\ IsAnyList
    /\ \E i, j \in 1..Len(last.body) :
          /\ i < j
          /\ last.body[i].timestamp > last.body[j].timestamp
          /\ CreatedAfter(last.body[i].id, last.body[j].id)

\* C8: stats returns the number of stored records, the number whose notes
\* is neither null nor empty and the number whose otherCities is neither
\* null nor empty.
C8_StatsCounts ==
    (last.op = "stats" /\ last.status = 200) =>
        /\ last.body.totalFriends = Len(table)
        /\ last.body.friendsWithNotes =
              Cardinality({i \in 1..Len(table) : table[i].notes \notin {Null, ""}})
        /\ last.body.friendsWithRecommendations =
              Cardinality({i \in 1..Len(table) :
                              table[i].otherCities \notin {Null, ""}})

\* Stats of a table that was empty and then received one friend with notes
\* and one without: totalFriends = 2, friendsWithNotes = 1.
C8_Witness ==
    /\ last.op = "stats"
    /\ last.status = 200
    /\ issued = <<1, 2>>
    /\ Len(table) = 2
    /\ \E i, j \in 1..2 : table[i].notes # Null /\ table[j].notes = Null
    /\ last.body.totalFriends = 2
    /\ last.body.friendsWithNotes = 1

\* The create request b has name, location and coords, one coordinate 0.
ZeroCoord(b) ==
    /\ ~FalsyText(b.name)
    /\ ~FalsyText(b.location)
    /\ b.coords # <<>>
    /\ (b.coords[1] = 0 \/ b.coords[2] = 0)

\* C9: a create request whose lat or lng is 0 is answered 400 and stores no
\* row, its name, location and other coordinate being valid; no INSERT is
\* ever queued for it.
C9_ZeroCoordRejected ==
    /\ [](\A s \in Pending("insert") : ~ZeroCoord(s.body))
    /\ [][(IsCreateAnswer(last') /\ ZeroCoord(last'.req)) =>
            (last'.status = 400 /\ table' = table /\ seq' = seq)]_vars

\* A create with lat 0 and a valid lng was answered 400.
C9_Witness ==
    /\ last.op = "create"
    /\ last.status = 400
    /\ ZeroCoord(last.req)
    /\ last.req.coords[1] = 0
    /\ last.req.coords[2] # 0
    /\ Len(table) >= 1

\* C10: under every interleaving of queued statements each id a create
\* returned is in exactly one place: still stored, or answered with success
\* by exactly one delete-one, or removed by a delete-all; a delete-one
\* executed right after a delete-one of the same id that was queued with it
\* and answered with success is answered 404 (500 when the engine fails the
\* statement); and the counts the delete-all responses reported add up to
\* the number of records delete-all removed.
C10_WritesAtomic ==
    /\ reported = Cardinality(cleared)
    /\ \A id \in BagToSet(removed) \cup cleared \cup Ids(table) :
          id \in Range(issued)
    /\ \A id \in Range(issued) :
          (IF id \in Ids(table) THEN 1 ELSE 0)
            + CopiesIn(id, removed)
            + (IF id \in cleared THEN 1 ELSE 0) = 1
    /\ (prior.op = "deleteOne" /\ last.status # 500) =>
          /\ last.op = "deleteOne"
          /\ last.status = 404
          /\ CopiesIn(ParamId(last.req), removed) = 1

\* Two delete-one statements of a stored id, which the engine of the build
\* reads from a text other engines read as no rowid, were queued together
\* and both have been answered, the first with success and the second with
\* 404; an earlier delete-all had reported the record an earlier create
\* stored.
C10_Witness ==
    /\ last.op = "deleteOne"
    /\ last.status = 404
    /\ prior.op = "deleteOne"
    /\ prior.status = 200
    /\ prior.twin
    /\ ParamId(prior.req) = ParamId(last.req)
    /\ Readable(last.req) = {0, ParamId(last.req)}
    /\ reported >= 1

====
